---- MODULE Spec2Model ----
(***************************************************************************)
(* A model of tsc-rs: the Type enum with its Display rendering, the        *)
(* structural assignability relation check_type_compatibility (types.rs),  *)
(* and the TypeChecker (type_checker.rs) with its symbol table and         *)
(* diagnostic list.                                                        *)
(*                                                                         *)
(* Types, AST nodes and Option values are records tagged by a kind field:  *)
(*   Type        [k |-> "Number"], [k |-> "Array", elem |-> T], ...        *)
(*   Expression  [e |-> "Identifier", name |-> "a"], ...                   *)
(*   Statement   [s |-> "VariableDeclaration", declarations |-> <<..>>]    *)
(*   TSType      [t |-> "TSNumberKeyword"], ...                            *)
(*   Option      None, Some(v)                                             *)
(***************************************************************************)
EXTENDS Integers, Sequences, FiniteSets, TLC

VARIABLES
    errors,        \* TypeChecker.errors: Vec<String>
    symbol_table,  \* TypeChecker.symbol_table: HashMap<String, Type>
    calls,         \* number of public calls made on the checker so far
    lastOp,        \* history: the last public call ("new" right after construction)
    lastArg,       \* history: its argument (a Program, an Expression or a TSType)
    lastResult,    \* history: what it returned (a Type, or the error slice)
    preErrors,     \* history: errors as they were before the last call
    preTable,      \* history: symbol_table as it was before the last call
    history,       \* history: the programs a logged session passed to check_program
    expected,      \* check_type_compatibility: first argument
    actual,        \* check_type_compatibility: second argument
    compatible,    \* check_type_compatibility: the value it returned
    pc             \* "ready" before check_type_compatibility is applied, "done" after

vars == <<errors, symbol_table, calls, lastOp, lastArg, lastResult, preErrors,
          preTable, history, expected, actual, compatible, pc>>

checkerVars == <<errors, symbol_table, calls, lastOp, lastArg, lastResult,
                 preErrors, preTable, history>>

compatVars == <<expected, actual, compatible, pc>>

(***************************************************************************)
(* Bounds of the model.                                                    *)
(***************************************************************************)
\* longest Union / Tuple / parameter list drawn as an input of check_type_compatibility
MaxLen == 2
\* number of public calls made on one checker instance
MaxCalls == 2

(***************************************************************************)
(* Option<T>                                                               *)
(***************************************************************************)
None == [o |-> "None"]

Some(v) == [o |-> "Some", v |-> v]

IsSome(x) == x.o = "Some"

(***************************************************************************)
(* enum Type                                                               *)
(***************************************************************************)
PrimitiveKinds ==
    {"Any", "Number", "String", "Boolean", "Null", "Undefined", "Never",
     "BigInt", "Symbol", "Object", "Unknown", "Void"}

Prim(kind) == [k |-> kind]

AnyType == Prim("Any")

Number == Prim("Number")

String == Prim("String")

Boolean == Prim("Boolean")

Null == Prim("Null")

Undefined == Prim("Undefined")

Never == Prim("Never")

BigInt == Prim("BigInt")

Symbol == Prim("Symbol")

Object == Prim("Object")

Unknown == Prim("Unknown")

Void == Prim("Void")

StringLiteral(s) == [k |-> "StringLiteral", s |-> s]

\* f64 payload: an integral value n, or NaN (nan = TRUE, n = 0)
NumberLiteral(n) == [k |-> "NumberLiteral", n |-> n, nan |-> FALSE]

NumberLiteralNaN == [k |-> "NumberLiteral", n |-> 0, nan |-> TRUE]

BooleanLiteral(b) == [k |-> "BooleanLiteral", b |-> b]

Union(types) == [k |-> "Union", types |-> types]

Array(elem) == [k |-> "Array", elem |-> elem]

Tuple(types) == [k |-> "Tuple", types |-> types]

Function(params, return_type) ==
    [k |-> "Function", params |-> params, return_type |-> return_type]

\* f64's PartialEq (IEEE 754): NaN equals nothing, itself included
F64Eq(x, y) == ~x.nan /\ ~y.nan /\ x.n = y.n

(***************************************************************************)
(* impl fmt::Display for Type                                              *)
(***************************************************************************)
RECURSIVE Join(_, _)
\* [String]::join(sep)
Join(strs, sep) ==
    IF Len(strs) = 0 THEN ""
    ELSE IF Len(strs) = 1 THEN strs[1]
    ELSE strs[1] \o sep \o Join(Tail(strs), sep)

\* "{}" of an f64 that holds an integral value, or NaN
FmtF64(x) == IF x.nan THEN "NaN" ELSE ToString(x.n)

PrimitiveKeyword(kind) ==
    CASE kind = "Any" -> "any"
      [] kind = "Number" -> "number"
      [] kind = "String" -> "string"
      [] kind = "Boolean" -> "boolean"
      [] kind = "Null" -> "null"
      [] kind = "Undefined" -> "undefined"
      [] kind = "Never" -> "never"
      [] kind = "BigInt" -> "bigint"
      [] kind = "Symbol" -> "symbol"
      [] kind = "Object" -> "object"
      [] kind = "Unknown" -> "unknown"
      [] kind = "Void" -> "void"

RECURSIVE Display(_)
Display(ty) ==
    CASE ty.k \in PrimitiveKinds -> PrimitiveKeyword(ty.k)
      [] ty.k = "StringLiteral" -> "\"" \o ty.s \o "\""
      [] ty.k = "NumberLiteral" -> FmtF64(ty)
      [] ty.k = "BooleanLiteral" -> IF ty.b THEN "true" ELSE "false"
      [] ty.k = "Union" ->
            Join([i \in 1..Len(ty.types) |-> Display(ty.types[i])], " | ")
      [] ty.k = "Array" -> Display(ty.elem) \o "[]"
      [] ty.k = "Tuple" ->
            "[" \o Join([i \in 1..Len(ty.types) |-> Display(ty.types[i])], ", ") \o "]"
      [] ty.k = "Function" ->
            "(" \o Join([i \in 1..Len(ty.params) |-> Display(ty.params[i])], ", ")
                \o ") => " \o Display(ty.return_type)

(***************************************************************************)
(* pub fn check_type_compatibility(expected: &Type, actual: &Type) -> bool *)
(***************************************************************************)
RECURSIVE check_type_compatibility(_, _)

\* mutant: Any accepted on the actual side as well
PrimitiveArmAnyActual(exp, act) ==
    exp.k \in PrimitiveKinds /\ (act.k = exp.k \/ act.k = "Any")

\* mutant: the arm of one primitive, Void, is missing
PrimitiveArmWithoutVoid(exp, act) ==
    exp.k \in PrimitiveKinds \ {"Void"} /\ act.k = exp.k

\* (Type::Number, Type::Number) => true, ... one arm per primitive
PrimitiveArm(exp, act) == exp.k \in PrimitiveKinds /\ act.k = exp.k

\* mutant: widening in both directions
WidenArmBothWays(exp, act) ==
    \/ {exp.k, act.k} = {"Number", "NumberLiteral"}
    \/ {exp.k, act.k} = {"String", "StringLiteral"}
    \/ {exp.k, act.k} = {"Boolean", "BooleanLiteral"}

\* (Type::Number, Type::NumberLiteral(_)) => true, and String, Boolean alike
WidenArm(exp, act) ==
    \/ exp.k = "Number" /\ act.k = "NumberLiteral"
    \/ exp.k = "String" /\ act.k = "StringLiteral"
    \/ exp.k = "Boolean" /\ act.k = "BooleanLiteral"

\* (Type::NumberLiteral(n1), Type::NumberLiteral(n2)) => n1 == n2, ...
LiteralArm(exp, act) ==
    CASE exp.k = "NumberLiteral" -> F64Eq(exp, act)
      [] exp.k = "StringLiteral" -> exp.s = act.s
      [] exp.k = "BooleanLiteral" -> exp.b = act.b

\* mutant: a Union actual is split and each of its members must be accepted
UnionArmSplitsActual(types, act) ==
    IF act.k = "Union"
    THEN \A j \in 1..Len(act.types) :
            \E i \in 1..Len(types) : check_type_compatibility(types[i], act.types[j])
    ELSE \E i \in 1..Len(types) : check_type_compatibility(types[i], act)

\* mutant: a Union actual is accepted as soon as one of its members is
UnionArmAnyOfActual(types, act) ==
    IF act.k = "Union"
    THEN \E j \in 1..Len(act.types) :
            \E i \in 1..Len(types) : check_type_compatibility(types[i], act.types[j])
    ELSE \E i \in 1..Len(types) : check_type_compatibility(types[i], act)

\* (Type::Union(types), actual) => types.iter().any(|t| ...(t, actual))
UnionArm(types, act) ==
    \E i \in 1..Len(types) : check_type_compatibility(types[i], act)

\* (Type::Array(expected_elem), Type::Array(actual_elem))
ArrayArm(expected_elem, actual_elem) ==
    check_type_compatibility(expected_elem, actual_elem)

\* (Type::Tuple(expected_types), Type::Tuple(actual_types))
TupleArm(expected_types, actual_types) ==
    /\ Len(expected_types) = Len(actual_types)
    /\ \A i \in 1..Len(expected_types) :
          check_type_compatibility(expected_types[i], actual_types[i])

\* mutant: parameters compared contravariantly
FunctionArmContravariant(f1, f2) ==
    /\ Len(f1.params) = Len(f2.params)
    /\ \A i \in 1..Len(f1.params) :
          check_type_compatibility(f2.params[i], f1.params[i])
    /\ check_type_compatibility(f1.return_type, f2.return_type)

\* (Type::Function {params1, return1}, Type::Function {params2, return2})
FunctionArm(f1, f2) ==
    /\ Len(f1.params) = Len(f2.params)
    /\ \A i \in 1..Len(f1.params) :
          check_type_compatibility(f1.params[i], f2.params[i])
    /\ check_type_compatibility(f1.return_type, f2.return_type)

\* the match of check_type_compatibility, its arms tried in source order
check_type_compatibility(exp, act) ==
    IF exp.k = "Any" THEN TRUE
    ELSE IF PrimitiveArm(exp, act) THEN TRUE
    ELSE IF WidenArm(exp, act) THEN TRUE
    ELSE IF exp.k \in {"NumberLiteral", "StringLiteral", "BooleanLiteral"}
            /\ act.k = exp.k THEN LiteralArm(exp, act)
    ELSE IF exp.k = "Union" THEN UnionArm(exp.types, act)
    ELSE IF exp.k = "Array" /\ act.k = "Array" THEN ArrayArm(exp.elem, act.elem)
    ELSE IF exp.k = "Tuple" /\ act.k = "Tuple" THEN TupleArm(exp.types, act.types)
    ELSE IF exp.k = "Function" /\ act.k = "Function" THEN FunctionArm(exp, act)
    ELSE FALSE

(***************************************************************************)
(* The AST the checker reads (oxc_ast), as far as the checker looks at it. *)
(***************************************************************************)
\* TSType
TSKeyword(name) == [t |-> name]

TSArrayType(element_type) == [t |-> "TSArrayType", element_type |-> element_type]

\* element_types: TSType nodes, or TSOptionalType / TSRestType nodes
TSTupleType(element_types) == [t |-> "TSTupleType", element_types |-> element_types]

TSUnionType(types) == [t |-> "TSUnionType", types |-> types]

TSFunctionType(params, return_type) ==
    [t |-> "TSFunctionType", params |-> params, return_type |-> return_type]

\* a TSType the checker has no arm for
TSTypeReference == [t |-> "TSTypeReference"]

\* another one: a literal type such as 42 or "hello"
TSLiteralType == [t |-> "TSLiteralType"]

TSOptionalType == [t |-> "TSOptionalType"]

\* BindingPattern
BindingIdentifier(name, type_annotation) ==
    [kind |-> "BindingIdentifier", name |-> name, type_annotation |-> type_annotation]

ObjectPattern(type_annotation) ==
    [kind |-> "ObjectPattern", type_annotation |-> type_annotation]

FormalParameter(pattern) == [pattern |-> pattern]

\* Expression
NumericLiteralExpr == [e |-> "NumericLiteral"]

BigIntLiteralExpr == [e |-> "BigIntLiteral"]

StringLiteralExpr == [e |-> "StringLiteral"]

BooleanLiteralExpr == [e |-> "BooleanLiteral"]

NullLiteralExpr == [e |-> "NullLiteral"]

Identifier(name) == [e |-> "Identifier", name |-> name]

\* elements: [a |-> "Expression", expr |-> e], or an elision or a spread
ArrayExpression(elements) == [e |-> "ArrayExpression", elements |-> elements]

ElementExpr(expr) == [a |-> "Expression", expr |-> expr]

Elision == [a |-> "Elision"]

BinaryExpression(operator, left, right) ==
    [e |-> "BinaryExpression", operator |-> operator, left |-> left, right |-> right]

\* an Expression the checker has no arm for (a call, a unary expression, ...)
CallExpression == [e |-> "CallExpression"]

\* Statement
VariableDeclarator(id, init) == [id |-> id, init |-> init]

VariableDeclaration(declarations) ==
    [s |-> "VariableDeclaration", declarations |-> declarations]

FunctionDeclaration(id, params, return_type, body) ==
    [s |-> "FunctionDeclaration", id |-> id, params |-> params,
     return_type |-> return_type, body |-> body]

ReturnStatement(argument) == [s |-> "ReturnStatement", argument |-> argument]

IfStatement(consequent) == [s |-> "IfStatement", consequent |-> consequent]

BlockStatement(body) == [s |-> "BlockStatement", body |-> body]

WhileStatement(body) == [s |-> "WhileStatement", body |-> body]

ExpressionStatement(expression) ==
    [s |-> "ExpressionStatement", expression |-> expression]

(***************************************************************************)
(* HashMap<String, Type>                                                   *)
(***************************************************************************)
\* HashMap::insert
Insert(table, name, ty) ==
    [n \in DOMAIN table \cup {name} |-> IF n = name THEN ty ELSE table[n]]

\* HashMap::get(name).cloned().unwrap_or(Type::Any)
GetOrAny(table, name) == IF name \in DOMAIN table THEN table[name] ELSE AnyType

(***************************************************************************)
(* The two diagnostics                                                     *)
(***************************************************************************)
\* format!("Type '{}' is not assignable to type '{}'", actual, expected)
NotAssignable(act, exp) ==
    "Type '" \o Display(act) \o "' is not assignable to type '" \o Display(exp) \o "'"

\* format!("The binary operation between '{}' and '{}' is not allowed", left, right)
BinaryNotAllowed(left_type, right_type) ==
    "The binary operation between '" \o Display(left_type) \o "' and '"
        \o Display(right_type) \o "' is not allowed"

(***************************************************************************)
(* pub fn check_type(&self, ts_type: &TSType) -> Type                      *)
(***************************************************************************)
KeywordType(name) ==
    CASE name = "TSAnyKeyword" -> AnyType
      [] name = "TSNumberKeyword" -> Number
      [] name = "TSStringKeyword" -> String
      [] name = "TSBooleanKeyword" -> Boolean
      [] name = "TSNullKeyword" -> Null
      [] name = "TSUndefinedKeyword" -> Undefined
      [] name = "TSNeverKeyword" -> Never
      [] name = "TSBigIntKeyword" -> BigInt
      [] name = "TSSymbolKeyword" -> Symbol
      [] name = "TSObjectKeyword" -> Object
      [] name = "TSUnknownKeyword" -> Unknown
      [] name = "TSVoidKeyword" -> Void

TSKeywords ==
    {"TSAnyKeyword", "TSNumberKeyword", "TSStringKeyword", "TSBooleanKeyword",
     "TSNullKeyword", "TSUndefinedKeyword", "TSNeverKeyword", "TSBigIntKeyword",
     "TSSymbolKeyword", "TSObjectKeyword", "TSUnknownKeyword", "TSVoidKeyword"}

\* Vec::iter().filter_map(f).collect(): the Some values of f, in order
RECURSIVE FilterMapSome(_)
FilterMapSome(opts) ==
    IF Len(opts) = 0 THEN <<>>
    ELSE IF IsSome(Head(opts)) THEN <<Head(opts).v>> \o FilterMapSome(Tail(opts))
    ELSE FilterMapSome(Tail(opts))

RECURSIVE check_type(_)
check_type(ts_type) ==
    CASE ts_type.t \in TSKeywords -> KeywordType(ts_type.t)
      [] ts_type.t = "TSArrayType" -> Array(check_type(ts_type.element_type))
      [] ts_type.t = "TSTupleType" ->
            Tuple([i \in 1..Len(ts_type.element_types) |->
                      IF ts_type.element_types[i].t \in {"TSOptionalType", "TSRestType"}
                      THEN AnyType
                      ELSE check_type(ts_type.element_types[i])])
      [] ts_type.t = "TSUnionType" ->
            Union([i \in 1..Len(ts_type.types) |-> check_type(ts_type.types[i])])
      [] ts_type.t = "TSFunctionType" ->
            Function(
                FilterMapSome([i \in 1..Len(ts_type.params) |->
                    IF IsSome(ts_type.params[i].pattern.type_annotation)
                    THEN Some(check_type(ts_type.params[i].pattern.type_annotation.v))
                    ELSE None]),
                check_type(ts_type.return_type))
      [] OTHER -> AnyType

(***************************************************************************)
(* pub fn check_expression(&mut self, expr: &Expression) -> Type           *)
(* As an operator: the type returned and the diagnostic list afterwards.   *)
(***************************************************************************)
Typed(ty, errs) == [ty |-> ty, errors |-> errs]

\* mutant: a binding in the symbol table wins over the keyword spelling
IdentifierTypeTableFirst(name, table) ==
    IF name \in DOMAIN table THEN table[name]
    ELSE CASE name = "number" -> Number
           [] name = "string" -> String
           [] name = "boolean" -> Boolean
           [] name = "bigint" -> BigInt
           [] name = "symbol" -> Symbol
           [] name = "null" -> Null
           [] name = "never" -> Never
           [] name = "void" -> Void
           [] name = "unknown" -> Unknown
           [] OTHER -> AnyType

\* Expression::Identifier
IdentifierType(name, table) ==
    CASE name = "number" -> Number
      [] name = "string" -> String
      [] name = "boolean" -> Boolean
      [] name = "bigint" -> BigInt
      [] name = "symbol" -> Symbol
      [] name = "null" -> Null
      [] name = "never" -> Never
      [] name = "void" -> Void
      [] name = "unknown" -> Unknown
      [] name = "any" -> AnyType
      [] OTHER -> GetOrAny(table, name)

\* the match on (left_type, right_type) shared by the three operator groups;
\* fallback is the type of its last arm
NumericMatch(left_type, right_type, errs, fallback) ==
    IF left_type = BigInt /\ right_type = BigInt THEN Typed(BigInt, errs)
    ELSE IF left_type = Number /\ right_type = Number THEN Typed(Number, errs)
    ELSE IF left_type = BigInt \/ right_type = BigInt
         THEN Typed(Number, Append(errs, BinaryNotAllowed(left_type, right_type)))
    ELSE Typed(fallback, errs)

\* mutant: the String test looks at the left operand only
AdditionArmLeftOnly(left_type, right_type, errs) ==
    IF left_type = String THEN Typed(String, errs)
    ELSE NumericMatch(left_type, right_type, errs, Number)

\* BinaryOperator::Addition
AdditionArm(left_type, right_type, errs) ==
    IF left_type = String \/ right_type = String THEN Typed(String, errs)
    ELSE NumericMatch(left_type, right_type, errs, Number)

\* mutant: the arithmetic group falls back to Number, as the bitwise group does
ArithmeticArmNumberFallback(left_type, right_type, errs) ==
    NumericMatch(left_type, right_type, errs, Number)

\* BinaryOperator::Subtraction | Multiplication | Division | Remainder | Exponential
ArithmeticArm(left_type, right_type, errs) ==
    NumericMatch(left_type, right_type, errs, AnyType)

\* BinaryOperator::BitwiseAnd | BitwiseOR | BitwiseXOR | ShiftLeft | ShiftRight
\* | ShiftRightZeroFill
BitwiseArm(left_type, right_type, errs) ==
    NumericMatch(left_type, right_type, errs, Number)

ArithmeticOperators ==
    {"Subtraction", "Multiplication", "Division", "Remainder", "Exponential"}

RelationalOperators ==
    {"LessThan", "LessEqualThan", "GreaterThan", "GreaterEqualThan", "Equality",
     "Inequality", "StrictEquality", "StrictInequality", "In", "Instanceof"}

BitwiseOperators ==
    {"BitwiseAnd", "BitwiseOR", "BitwiseXOR", "ShiftLeft", "ShiftRight",
     "ShiftRightZeroFill"}

\* match bin_expr.operator
BinaryResult(operator, left_type, right_type, errs) ==
    CASE operator = "Addition" -> AdditionArm(left_type, right_type, errs)
      [] operator \in ArithmeticOperators -> ArithmeticArm(left_type, right_type, errs)
      [] operator \in RelationalOperators -> Typed(Boolean, errs)
      [] operator \in BitwiseOperators -> BitwiseArm(left_type, right_type, errs)
      [] OTHER -> Typed(AnyType, errs)

RECURSIVE check_expression(_, _, _)
check_expression(expr, table, errs) ==
    CASE expr.e = "NumericLiteral" -> Typed(Number, errs)
      [] expr.e = "BigIntLiteral" -> Typed(BigInt, errs)
      [] expr.e = "StringLiteral" -> Typed(String, errs)
      [] expr.e = "BooleanLiteral" -> Typed(Boolean, errs)
      [] expr.e = "NullLiteral" -> Typed(Null, errs)
      [] expr.e = "Identifier" -> Typed(IdentifierType(expr.name, table), errs)
      [] expr.e = "ArrayExpression" ->
            IF Len(expr.elements) > 0 /\ expr.elements[1].a = "Expression"
            THEN LET first == check_expression(expr.elements[1].expr, table, errs)
                 IN  Typed(Array(first.ty), first.errors)
            ELSE Typed(Array(AnyType), errs)
      [] expr.e = "BinaryExpression" ->
            LET left == check_expression(expr.left, table, errs)
                right == check_expression(expr.right, table, left.errors)
            IN  BinaryResult(expr.operator, left.ty, right.ty, right.errors)
      [] OTHER -> Typed(AnyType, errs)

(***************************************************************************)
(* fn check_statement(&mut self, stmt: &Statement)                         *)
(* As an operator: the symbol table and the diagnostic list afterwards.    *)
(***************************************************************************)
Checked(table, errs) == [symbol_table |-> table, errors |-> errs]

\* mutant: the not-assignable diagnostic is put in front of the list
PushUnlessCompatibleInFront(exp, act, errs) ==
    IF ~check_type_compatibility(exp, act)
    THEN <<NotAssignable(act, exp)>> \o errs
    ELSE errs

\* if !check_type_compatibility(expected, actual) { self.errors.push(...) }
PushUnlessCompatible(exp, act, errs) ==
    IF ~check_type_compatibility(exp, act)
    THEN Append(errs, NotAssignable(act, exp))
    ELSE errs

\* the declared type of a declarator: annotation, else initializer, else Any
DeclaredType(decl, table, errs) ==
    IF IsSome(decl.id.type_annotation)
    THEN Typed(check_type(decl.id.type_annotation.v), errs)
    ELSE IF IsSome(decl.init) THEN check_expression(decl.init.v, table, errs)
    ELSE Typed(AnyType, errs)

\* mutant: the name is bound only when the initializer is assignable
check_declarator_BindIfCompatible(decl, table, errs) ==
    IF decl.id.kind = "BindingIdentifier"
    THEN LET var_type == DeclaredType(decl, table, errs)
             bound == Insert(table, decl.id.name, var_type.ty)
         IN  IF IsSome(decl.init)
             THEN LET init_type == check_expression(decl.init.v, bound, var_type.errors)
                  IN  IF check_type_compatibility(var_type.ty, init_type.ty)
                      THEN Checked(bound, init_type.errors)
                      ELSE Checked(table,
                                   Append(init_type.errors,
                                          NotAssignable(init_type.ty, var_type.ty)))
             ELSE Checked(bound, var_type.errors)
    ELSE Checked(table, errs)

\* the body of the loop over var_decl.declarations
check_declarator(decl, table, errs) ==
    IF decl.id.kind = "BindingIdentifier"
    THEN LET var_type == DeclaredType(decl, table, errs)
             bound == Insert(table, decl.id.name, var_type.ty)
         IN  IF IsSome(decl.init)
             THEN LET init_type == check_expression(decl.init.v, bound, var_type.errors)
                  IN  Checked(bound,
                              PushUnlessCompatible(var_type.ty, init_type.ty,
                                                   init_type.errors))
             ELSE Checked(bound, var_type.errors)
    ELSE Checked(table, errs)

RECURSIVE check_declarations_StopAtDiagnostic(_, _, _)
\* mutant: the loop over the declarators ends at the first diagnostic
check_declarations_StopAtDiagnostic(decls, table, errs) ==
    IF Len(decls) = 0 THEN Checked(table, errs)
    ELSE LET first == check_declarator(Head(decls), table, errs)
         IN  IF first.errors # errs THEN first
             ELSE check_declarations_StopAtDiagnostic(Tail(decls), first.symbol_table,
                                                       first.errors)

RECURSIVE check_declarations(_, _, _)
\* for decl in &var_decl.declarations
check_declarations(decls, table, errs) ==
    IF Len(decls) = 0 THEN Checked(table, errs)
    ELSE LET first == check_declarator(Head(decls), table, errs)
         IN  check_declarations(Tail(decls), first.symbol_table, first.errors)

\* the type of one parameter: its annotation, or Any
ParamType(param) ==
    IF IsSome(param.pattern.type_annotation)
    THEN check_type(param.pattern.type_annotation.v)
    ELSE AnyType

RECURSIVE BindParamsKeepFirst(_, _)
\* mutant: a parameter does not replace an earlier binding of its name
BindParamsKeepFirst(items, table) ==
    IF Len(items) = 0 THEN table
    ELSE BindParamsKeepFirst(
            Tail(items),
            IF /\ Head(items).pattern.kind = "BindingIdentifier"
               /\ Head(items).pattern.name \notin DOMAIN table
            THEN Insert(table, Head(items).pattern.name, ParamType(Head(items)))
            ELSE table)

RECURSIVE BindParams(_, _)
\* for param in &func_decl.params.items: the table with the identifier parameters bound
BindParams(items, table) ==
    IF Len(items) = 0 THEN table
    ELSE BindParams(Tail(items),
                    IF Head(items).pattern.kind = "BindingIdentifier"
                    THEN Insert(table, Head(items).pattern.name, ParamType(Head(items)))
                    ELSE table)

\* param_types, in declaration order
ParamTypes(items) == [i \in 1..Len(items) |-> ParamType(items[i])]

\* the return annotation of a function declaration, or Any
ReturnType(func_decl) ==
    IF IsSome(func_decl.return_type) THEN check_type(func_decl.return_type.v)
    ELSE AnyType

RECURSIVE check_statement(_, _, _)
RECURSIVE check_body(_, _, _, _)

\* mutant: the returned type and the return type change places in the check
check_return_Reversed(ret_stmt, return_type, table, errs) ==
    IF IsSome(ret_stmt.argument)
    THEN LET actual_return_type == check_expression(ret_stmt.argument.v, table, errs)
         IN  Checked(table,
                     IF ~check_type_compatibility(actual_return_type.ty, return_type)
                     THEN Append(actual_return_type.errors,
                                 NotAssignable(actual_return_type.ty, return_type))
                     ELSE actual_return_type.errors)
    ELSE Checked(table, errs)

\* Statement::ReturnStatement inside a function body
check_return(ret_stmt, return_type, table, errs) ==
    IF IsSome(ret_stmt.argument)
    THEN LET actual_return_type == check_expression(ret_stmt.argument.v, table, errs)
         IN  Checked(table,
                     PushUnlessCompatible(return_type, actual_return_type.ty,
                                          actual_return_type.errors))
    ELSE Checked(table, errs)

\* for stmt in &body.statements
check_body(statements, return_type, table, errs) ==
    IF Len(statements) = 0 THEN Checked(table, errs)
    ELSE LET first ==
                 IF Head(statements).s = "ReturnStatement"
                 THEN check_return(Head(statements), return_type, table, errs)
                 ELSE check_statement(Head(statements), table, errs)
         IN  check_body(Tail(statements), return_type, first.symbol_table,
                        first.errors)

\* Statement::FunctionDeclaration
check_function(func_decl, table, errs) ==
    IF IsSome(func_decl.id)
    THEN LET with_params == BindParams(func_decl.params, table)
             return_type == ReturnType(func_decl)
             bound == Insert(with_params, func_decl.id.v,
                             Function(ParamTypes(func_decl.params), return_type))
         IN  IF IsSome(func_decl.body)
             THEN check_body(func_decl.body.v, return_type, bound, errs)
             ELSE Checked(bound, errs)
    ELSE Checked(table, errs)

\* mutant: the expression of an expression statement is evaluated
check_statement_EvaluatesExpressions(stmt, table, errs) ==
    CASE stmt.s = "VariableDeclaration" ->
            check_declarations(stmt.declarations, table, errs)
      [] stmt.s = "FunctionDeclaration" -> check_function(stmt, table, errs)
      [] stmt.s = "ExpressionStatement" ->
            Checked(table, check_expression(stmt.expression, table, errs).errors)
      [] OTHER -> Checked(table, errs)

check_statement(stmt, table, errs) ==
    CASE stmt.s = "VariableDeclaration" ->
            check_declarations(stmt.declarations, table, errs)
      [] stmt.s = "FunctionDeclaration" -> check_function(stmt, table, errs)
      [] OTHER -> Checked(table, errs)

RECURSIVE check_program_Reset(_, _, _)
\* mutant: every call starts over from an empty symbol table and diagnostic list
check_program_Reset(body, table, errs) ==
    IF Len(body) = 0 THEN Checked([n \in {} |-> AnyType], <<>>)
    ELSE LET before == check_program_Reset(SubSeq(body, 1, Len(body) - 1), table, errs)
         IN  check_statement(body[Len(body)], before.symbol_table, before.errors)

RECURSIVE check_program(_, _, _)
\* pub fn check_program(&mut self, program: &Program): for item in &program.body
check_program(body, table, errs) ==
    IF Len(body) = 0 THEN Checked(table, errs)
    ELSE LET first == check_statement(Head(body), table, errs)
         IN  check_program(Tail(body), first.symbol_table, first.errors)

(***************************************************************************)
(* Inputs of check_type_compatibility.                                     *)
(***************************************************************************)
Primitives == {Prim(kind) : kind \in PrimitiveKinds}

Literals ==
    {NumberLiteral(42), NumberLiteral(43), NumberLiteralNaN,
     StringLiteral("hello"), StringLiteral("world"),
     BooleanLiteral(TRUE), BooleanLiteral(FALSE)}

\* member types of the composites drawn
Elems == {AnyType, Number, String, NumberLiteral(42)}

\* parameter and return types of the function types drawn
SigElems == {AnyType, Number, String}

SeqsUpTo(S, n) == UNION {[1..m -> S] : m \in 0..n}

\* composites whose members are composites themselves
NestedTypes ==
    {Array(Array(Number)), Array(Array(AnyType)), Array(Union(<<Number, String>>)),
     Array(Tuple(<<Number>>)),
     Union(<<Union(<<Number, String>>), Boolean>>), Union(<<Array(Number), Number>>),
     Union(<<Array(AnyType)>>), Union(<<Tuple(<<Number>>), Function(<<>>, Number)>>),
     Tuple(<<Array(Number), Union(<<Number, String>>)>>), Tuple(<<Array(AnyType), AnyType>>),
     Function(<<Array(Number)>>, Union(<<Number, String>>)),
     Function(<<Array(AnyType)>>, Array(Number)),
     Function(<<Function(<<Number>>, String)>>, Function(<<>>, Number))}

CompatTypes ==
    Primitives \cup Literals
        \cup {Array(el) : el \in Elems \cup {Boolean, StringLiteral("hello")}}
        \cup {Union(ts) : ts \in SeqsUpTo(Elems, MaxLen)}
        \cup {Tuple(ts) : ts \in SeqsUpTo(Elems, MaxLen)}
        \cup {Function(ps, r) : ps \in SeqsUpTo(SigElems, MaxLen), r \in SigElems}
        \cup NestedTypes

(***************************************************************************)
(* TypeChecker::new                                                        *)
(***************************************************************************)
EmptyTable == [n \in {} |-> AnyType]

CheckerInit ==
    /\ errors = <<>>
    /\ symbol_table = EmptyTable
    /\ calls = 0
    /\ lastOp = "new"
    /\ lastArg = None
    /\ lastResult = None
    /\ preErrors = <<>>
    /\ preTable = EmptyTable
    /\ history = <<>>

CompatIdle ==
    /\ expected = AnyType
    /\ actual = AnyType
    /\ compatible = FALSE
    /\ pc = "idle"

(***************************************************************************)
(* Inputs of the checker: programs as the parser hands them over.          *)
(***************************************************************************)
TSNumber == TSKeyword("TSNumberKeyword")

TSString == TSKeyword("TSStringKeyword")

TSBigInt == TSKeyword("TSBigIntKeyword")

TSNumberOrString == TSUnionType(<<TSNumber, TSString>>)

\* let <name>[: <annotation>] [= <init>];
Let(name, type_annotation, init) ==
    VariableDeclaration(<<VariableDeclarator(BindingIdentifier(name, type_annotation),
                                             init)>>)

\* a parameter <name>[: <annotation>]
Param(name, type_annotation) ==
    FormalParameter(BindingIdentifier(name, type_annotation))

Plus(left, right) == BinaryExpression("Addition", left, right)

DeclNames == {"a", "i"}

DeclAnnotations == {None, Some(TSNumber), Some(TSBigInt), Some(TSNumberOrString)}

DeclInits ==
    {None, Some(NumericLiteralExpr), Some(BigIntLiteralExpr), Some(StringLiteralExpr),
     Some(Identifier("a")), Some(Identifier("i")),
     Some(Plus(Identifier("a"), Identifier("i"))),
     Some(ArrayExpression(<<ElementExpr(Identifier("i"))>>))}

\* one statement declaring one variable
LetStatements ==
    {Let(n, ann, init) : n \in DeclNames, ann \in DeclAnnotations, init \in DeclInits}

FnParams ==
    {<<Param("a", Some(TSNumber))>>, <<Param("a", None)>>,
     <<Param("a", Some(TSString))>>,
     <<Param("a", Some(TSBigInt)), Param("c", Some(TSNumber))>>}

FnReturnTypes == {None, Some(TSNumber), Some(TSString)}

FnBodies ==
    {<<ReturnStatement(Some(Identifier("a")))>>,
     <<ReturnStatement(Some(Plus(Identifier("a"), Identifier("c"))))>>,
     <<ReturnStatement(None)>>,
     <<IfStatement(BlockStatement(<<ReturnStatement(Some(Identifier("a")))>>))>>}

\* function i(<params>)[: <return type>] { <body> }
FnStatements ==
    {FunctionDeclaration(Some("i"), ps, r, Some(b)) :
        ps \in FnParams, r \in FnReturnTypes, b \in FnBodies}

\* function c(a: string): number { return a; }
InnerFn ==
    FunctionDeclaration(Some("c"), <<Param("a", Some(TSString))>>, Some(TSNumber),
                        Some(<<ReturnStatement(Some(Identifier("a")))>>))

\* function declarations outside the product above; every one is named, as the
\* parser rejects a function statement without a name
FnExtraStatements ==
    {\* function a(a: number): string { return a; }
     FunctionDeclaration(Some("a"), <<Param("a", Some(TSNumber))>>, Some(TSString),
                         Some(<<ReturnStatement(Some(Identifier("a")))>>)),
     \* function i(a: number): string { function c(a: string): number {..} return a; }
     FunctionDeclaration(Some("i"), <<Param("a", Some(TSNumber))>>, Some(TSString),
                         Some(<<InnerFn, ReturnStatement(Some(Identifier("a")))>>)),
     \* function i(a: number): string { return a; function c(..) {..} return a; }
     FunctionDeclaration(Some("i"), <<Param("a", Some(TSNumber))>>, Some(TSString),
                         Some(<<ReturnStatement(Some(Identifier("a"))), InnerFn,
                                ReturnStatement(Some(Identifier("a")))>>)),
     \* function i(a: number): number { let a = "s"; return a; }
     FunctionDeclaration(Some("i"), <<Param("a", Some(TSNumber))>>, Some(TSNumber),
                         Some(<<Let("a", None, Some(StringLiteralExpr)),
                                ReturnStatement(Some(Identifier("a")))>>)),
     \* function i(a: number): number { let c: string = a; return c; }
     FunctionDeclaration(Some("i"), <<Param("a", Some(TSNumber))>>, Some(TSNumber),
                         Some(<<Let("c", Some(TSString), Some(Identifier("a"))),
                                ReturnStatement(Some(Identifier("c")))>>)),
     \* function i({..}: number, c: string): string { return c; }
     FunctionDeclaration(Some("i"),
                         <<FormalParameter(ObjectPattern(Some(TSNumber))),
                           Param("c", Some(TSString))>>,
                         Some(TSString),
                         Some(<<ReturnStatement(Some(Identifier("c")))>>)),
     \* function i(a: number, a: string): string { return a; }
     FunctionDeclaration(Some("i"),
                         <<Param("a", Some(TSNumber)), Param("a", Some(TSString))>>,
                         Some(TSString),
                         Some(<<ReturnStatement(Some(Identifier("a")))>>)),
     \* function i(number: string): string { return number; }
     FunctionDeclaration(Some("i"), <<Param("number", Some(TSString))>>, Some(TSString),
                         Some(<<ReturnStatement(Some(Identifier("number")))>>)),
     \* function i(): number | string { return 3; }
     FunctionDeclaration(Some("i"), <<>>, Some(TSNumberOrString),
                         Some(<<ReturnStatement(Some(NumericLiteralExpr))>>)),
     \* declare function i(a: number): string;
     FunctionDeclaration(Some("i"), <<Param("a", Some(TSNumber))>>, Some(TSString), None)}

\* statements the checker has no arm for
OtherStatements ==
    {ExpressionStatement(Plus(Identifier("a"), Identifier("c"))),
     ExpressionStatement(Plus(Identifier("a"), NumericLiteralExpr)),
     WhileStatement(BlockStatement(<<Let("i", Some(TSBigInt), Some(StringLiteralExpr))>>)),
     ReturnStatement(Some(Identifier("a"))),
     IfStatement(BlockStatement(<<Let("a", Some(TSNumber), Some(StringLiteralExpr))>>)),
     BlockStatement(<<InnerFn>>)}

\* let a: bigint = 1n; let c: number = 3; let i = a + c;
ScenarioD ==
    <<Let("a", Some(TSBigInt), Some(BigIntLiteralExpr)),
      Let("c", Some(TSNumber), Some(NumericLiteralExpr)),
      Let("i", None, Some(Plus(Identifier("a"), Identifier("c"))))>>

\* let a: bigint = 1n; let c: number = 3; let i: number = a + c;
ScenarioDAnnotated ==
    <<Let("a", Some(TSBigInt), Some(BigIntLiteralExpr)),
      Let("c", Some(TSNumber), Some(NumericLiteralExpr)),
      Let("i", Some(TSNumber), Some(Plus(Identifier("a"), Identifier("c"))))>>

\* let a: number = 42; let c: string = "hello"; let i: number = "world";
ScenarioB ==
    <<Let("a", Some(TSNumber), Some(NumericLiteralExpr)),
      Let("c", Some(TSString), Some(StringLiteralExpr)),
      Let("i", Some(TSNumber), Some(StringLiteralExpr))>>

\* let a: bigint = 1n, c = a, i: number = c;
ScenarioDeclarators ==
    <<VariableDeclaration(
        <<VariableDeclarator(BindingIdentifier("a", Some(TSBigInt)),
                             Some(BigIntLiteralExpr)),
          VariableDeclarator(ObjectPattern(Some(TSNumber)), Some(StringLiteralExpr)),
          VariableDeclarator(BindingIdentifier("c", None), Some(Identifier("a"))),
          VariableDeclarator(BindingIdentifier("i", Some(TSNumber)),
                             Some(Identifier("c")))>>)>>

ScenarioPrograms == {ScenarioD, ScenarioDAnnotated, ScenarioB, ScenarioDeclarators, <<>>}

Statements == LetStatements \cup FnStatements \cup FnExtraStatements \cup OtherStatements

Programs == {<<st>> : st \in Statements} \cup ScenarioPrograms

(***************************************************************************)
(* The public calls on one checker instance.                               *)
(***************************************************************************)
Init == CheckerInit /\ CompatIdle

\* checker.check_program(&program), for a program drawn from programs
CheckProgramIn(programs) ==
    /\ calls < MaxCalls
    /\ \E program \in programs :
          LET after == check_program(program, symbol_table, errors)
          IN  /\ symbol_table' = after.symbol_table
              /\ errors' = after.errors
              /\ lastOp' = "check_program"
              /\ lastArg' = program
              /\ lastResult' = None
    /\ preTable' = symbol_table
    /\ preErrors' = errors
    /\ calls' = calls + 1
    /\ UNCHANGED compatVars

CheckProgram == CheckProgramIn(Programs) /\ UNCHANGED history

Next == CheckProgram

Spec == Init /\ [][Next]_vars

(***************************************************************************)
(* The expression evaluator called on its own, on a checker whose symbol   *)
(* table was filled by declarations.                                       *)
(***************************************************************************)
BindingAnnotations ==
    {Some(TSNumber), Some(TSBigInt), Some(TSString), Some(TSNumberOrString)}

\* names a declaration can bind that are spelled like a type keyword
KeywordNames == {"number", "string", "bigint", "any", "undefined", "object"}

\* the spellings Expression::Identifier has an arm for, and two it has none for
IdentifierSpellings ==
    {"number", "string", "boolean", "bigint", "symbol", "null", "never", "void",
     "unknown", "any", "undefined", "object"}

\* let a: <T1>, i: <T2>;   and   let <n>: <T>;   and the statements without an arm
BindingPrograms ==
    {<<VariableDeclaration(<<VariableDeclarator(BindingIdentifier("a", t1), None),
                             VariableDeclarator(BindingIdentifier("i", t2), None)>>)>> :
        t1 \in BindingAnnotations, t2 \in BindingAnnotations}
    \cup {<<Let(n, t1, None)>> : n \in DeclNames, t1 \in BindingAnnotations}
    \cup {<<Let(n, Some(TSString), None)>> : n \in KeywordNames}
    \cup {<<Let("number", Some(TSNumber), None)>>, <<Let("any", Some(TSBigInt), None)>>}
    \cup {<<st>> : st \in OtherStatements}

Operands ==
    {NumericLiteralExpr, BigIntLiteralExpr, StringLiteralExpr, BooleanLiteralExpr,
     Identifier("a"), Identifier("i"), Identifier("c")}

NumericOperands == {NumericLiteralExpr, BigIntLiteralExpr, Identifier("a")}

Expressions ==
    {Plus(l, r) : l \in Operands, r \in Operands}
        \cup {Plus(Plus(Identifier("a"), Identifier("i")), r) : r \in Operands}
        \cup {Plus(l, Plus(Identifier("a"), Identifier("i"))) : l \in Operands}
        \cup {BinaryExpression(op, l, r) :
                op \in {"Subtraction", "BitwiseAnd"}, l \in Operands, r \in Operands}
        \cup {BinaryExpression(op, l, r) :
                op \in ArithmeticOperators \cup BitwiseOperators,
                l \in NumericOperands, r \in NumericOperands}
        \cup {BinaryExpression(op, Identifier("a"), Identifier("i")) :
                op \in {"LessThan", "Comma"}}
        \cup {ArrayExpression(<<>>), ArrayExpression(<<Elision>>),
              ArrayExpression(<<ElementExpr(Plus(Identifier("a"), Identifier("i"))),
                                ElementExpr(StringLiteralExpr)>>),
              NullLiteralExpr, CallExpression}
        \cup {Identifier(n) : n \in IdentifierSpellings}
        \cup Operands

BindDeclarations == CheckProgramIn(BindingPrograms) /\ UNCHANGED history

\* checker.check_expression(&expr)
CheckExpression ==
    /\ calls < MaxCalls
    /\ \E expr \in Expressions :
          LET after == check_expression(expr, symbol_table, errors)
          IN  /\ errors' = after.errors
              /\ lastOp' = "check_expression"
              /\ lastArg' = expr
              /\ lastResult' = after.ty
    /\ preTable' = symbol_table
    /\ preErrors' = errors
    /\ calls' = calls + 1
    /\ UNCHANGED <<symbol_table, history>>
    /\ UNCHANGED compatVars

\* the parameters of a function type annotation, named by position, annotated or not
FnTypeParams ==
    {[i \in 1..Len(anns) |-> Param(<<"x", "y", "z">>[i], anns[i])] :
        anns \in UNION {[1..m -> {Some(TSNumber), None}] : m \in 0..3}}
        \cup {<<Param("x", Some(TSString)), Param("y", Some(TSNumber))>>,
              <<FormalParameter(ObjectPattern(Some(TSString))), Param("y", None)>>}

TSTypes ==
    {TSKeyword(name) : name \in TSKeywords}
        \cup {TSArrayType(TSNumber), TSArrayType(TSArrayType(TSString)),
              TSTupleType(<<>>), TSTupleType(<<TSNumber, TSOptionalType>>),
              TSNumberOrString, TSUnionType(<<TSArrayType(TSNumber), TSTypeReference>>),
              TSTypeReference, TSLiteralType}
        \cup {TSFunctionType(ps, TSNumber) : ps \in FnTypeParams}
        \cup {TSFunctionType(<<>>, TSKeyword("TSVoidKeyword")),
              \* (x: (x: number, y) => number, y) => string
              TSFunctionType(
                  <<Param("x", Some(TSFunctionType(<<Param("x", Some(TSNumber)),
                                                     Param("y", None)>>, TSNumber))),
                    Param("y", None)>>,
                  TSString)}

\* checker.check_type(&ts_type)
CheckType ==
    /\ calls < MaxCalls
    /\ \E ts_type \in TSTypes :
          /\ lastOp' = "check_type"
          /\ lastArg' = ts_type
          /\ lastResult' = check_type(ts_type)
    /\ preTable' = symbol_table
    /\ preErrors' = errors
    /\ calls' = calls + 1
    /\ UNCHANGED <<errors, symbol_table, history>>
    /\ UNCHANGED compatVars

NextExpr == BindDeclarations \/ CheckExpression \/ CheckType

SpecExpr == Init /\ [][NextExpr]_vars

(***************************************************************************)
(* A session on one checker: check_program calls whose programs are logged, *)
(* and get_errors calls in between.                                        *)
(***************************************************************************)
\* let i = a - c;
LetDifference ==
    Let("i", None, Some(BinaryExpression("Subtraction", Identifier("a"), Identifier("c"))))

\* function i(a: number): string { return a + c; }
FnReturningSum ==
    FunctionDeclaration(Some("i"), <<Param("a", Some(TSNumber))>>, Some(TSString),
                        Some(<<ReturnStatement(Some(Plus(Identifier("a"),
                                                         Identifier("c"))))>>))

\* let a: bigint = 1n; let c: number = 3; let i: string = <init>;
WithBigIntAndNumber(init) ==
    <<Let("a", Some(TSBigInt), Some(BigIntLiteralExpr)),
      Let("c", Some(TSNumber), Some(NumericLiteralExpr)),
      Let("i", Some(TSString), Some(init))>>

\* let a: number = "s", c: bigint = a, i = c;
DeclaratorsAfterDiagnostic ==
    VariableDeclaration(
        <<VariableDeclarator(BindingIdentifier("a", Some(TSNumber)),
                             Some(StringLiteralExpr)),
          VariableDeclarator(BindingIdentifier("c", Some(TSBigInt)),
                             Some(Identifier("a"))),
          VariableDeclarator(BindingIdentifier("i", None), Some(Identifier("c")))>>)

\* function i(a: number): string { return a; function c(a: string): number
\* { return a; } return a + 1n; }
FnReturnsAfterDiagnostic ==
    FunctionDeclaration(Some("i"), <<Param("a", Some(TSNumber))>>, Some(TSString),
                        Some(<<ReturnStatement(Some(Identifier("a"))), InnerFn,
                               ReturnStatement(Some(Plus(Identifier("a"),
                                                         BigIntLiteralExpr)))>>))

SessionStatements ==
    {Let("a", Some(TSBigInt), Some(BigIntLiteralExpr)),
     Let("c", Some(TSNumber), Some(NumericLiteralExpr)),
     Let("a", Some(TSString), None),
     Let("c", Some(TSBigInt), Some(StringLiteralExpr)),
     Let("i", Some(TSNumber), Some(StringLiteralExpr)),
     Let("i", Some(TSString), Some(Plus(Identifier("a"), Identifier("c")))),
     Let("i", Some(TSString),
         Some(Plus(Plus(Identifier("a"), Identifier("c")),
                   Plus(Identifier("c"), Identifier("a"))))),
     LetDifference,
     FnReturningSum,
     DeclaratorsAfterDiagnostic,
     FnReturnsAfterDiagnostic,
     InnerFn}
        \cup OtherStatements

SessionPrograms ==
    {<<st>> : st \in SessionStatements}
        \cup {ScenarioD, ScenarioDAnnotated, ScenarioB, ScenarioDeclarators, <<>>,
              <<Let("a", Some(TSBigInt), Some(BigIntLiteralExpr)), FnReturningSum>>,
              \* ... let i: string = (a + c) + a;
              WithBigIntAndNumber(Plus(Plus(Identifier("a"), Identifier("c")),
                                       Identifier("a"))),
              \* ... let i: string = a + (c + a);
              WithBigIntAndNumber(Plus(Identifier("a"),
                                       Plus(Identifier("c"), Identifier("a")))),
              \* ... let i: string = [(a + c) + (c + a)];
              WithBigIntAndNumber(
                  ArrayExpression(<<ElementExpr(
                      Plus(Plus(Identifier("a"), Identifier("c")),
                           Plus(Identifier("c"), Identifier("a"))))>>))}

\* checker.check_program(&program), the program appended to the log
CheckProgramLogged ==
    /\ CheckProgramIn(SessionPrograms)
    /\ history' = Append(history, lastArg')

\* checker.get_errors()
GetErrors ==
    /\ calls < MaxCalls
    /\ lastOp' = "get_errors"
    /\ lastArg' = None
    /\ lastResult' = errors
    /\ preTable' = symbol_table
    /\ preErrors' = errors
    /\ calls' = calls + 1
    /\ UNCHANGED <<errors, symbol_table, history>>
    /\ UNCHANGED compatVars

NextSession == CheckProgramLogged \/ GetErrors

SpecSession == Init /\ [][NextSession]_vars

(***************************************************************************)
(* The assignability relation applied to one drawn pair of types.          *)
(***************************************************************************)
InitCompat ==
    /\ CheckerInit
    /\ expected \in CompatTypes
    /\ actual \in CompatTypes
    /\ compatible = FALSE
    /\ pc = "ready"

CheckTypeCompatibility ==
    /\ pc = "ready"
    /\ compatible' = check_type_compatibility(expected, actual)
    /\ pc' = "done"
    /\ UNCHANGED <<expected, actual>>
    /\ UNCHANGED checkerVars

NextCompat == CheckTypeCompatibility

SpecCompat == InitCompat /\ [][NextCompat]_vars

(***************************************************************************)
(* Properties of check_type_compatibility, checked under SpecCompat.       *)
(***************************************************************************)
IsPrimitive(ty) == ty.k \in PrimitiveKinds

IsLiteral(ty) == ty.k \in {"NumberLiteral", "StringLiteral", "BooleanLiteral"}

\* the base primitive a literal type widens to
BaseOf(lit) ==
    CASE lit.k = "NumberLiteral" -> Number
      [] lit.k = "StringLiteral" -> String
      [] lit.k = "BooleanLiteral" -> Boolean

\* two literal types of one kind carry equal raw values (numbers compared as f64)
SameLiteralValue(l1, l2) ==
    /\ l1.k = l2.k
    /\ CASE l1.k = "NumberLiteral" -> ~l1.nan /\ ~l2.nan /\ l1.n = l2.n
         [] l1.k = "StringLiteral" -> l1.s = l2.s
         [] l1.k = "BooleanLiteral" -> l1.b = l2.b

\* C4: over the twelve primitives compatible(E, A) is true iff E = A or E = Any;
\* Any as expected accepts every actual; Any as actual is rejected by every expected
\* type that is a non-Any primitive, a literal, an Array, a Tuple or a Function.
C4_PrimitiveTableAndAnySink ==
    pc = "done" =>
        /\ (IsPrimitive(expected) /\ IsPrimitive(actual))
              => (compatible <=> (expected = actual \/ expected = AnyType))
        /\ expected = AnyType => compatible
        /\ (actual = AnyType /\ expected # AnyType /\ expected.k # "Union")
              => ~compatible

\* C4 witness: a Function type was offered Any as the actual type and refused it.
C4_Witness ==
    /\ pc = "done"
    /\ expected.k = "Function"
    /\ actual = AnyType
    /\ ~compatible

\* C5 as claimed: a base primitive accepts each of its literals, a literal expected
\* never accepts a primitive, two literals are compatible iff of one kind with equal
\* values, and a literal is accepted by no primitive other than its own base.
C5_LiteralRulesAsClaimed ==
    pc = "done" =>
        /\ (IsLiteral(actual) /\ expected = BaseOf(actual)) => compatible
        /\ (IsLiteral(expected) /\ IsPrimitive(actual)) => ~compatible
        /\ (IsLiteral(expected) /\ IsLiteral(actual))
              => (compatible <=> SameLiteralValue(expected, actual))
        /\ (IsPrimitive(expected) /\ IsLiteral(actual) /\ expected # BaseOf(actual))
              => ~compatible

\* C5 amended: as claimed, except that a literal is accepted by its own base and by
\* Any, and by no other primitive.
C5_LiteralRules ==
    pc = "done" =>
        /\ (IsLiteral(actual) /\ expected = BaseOf(actual)) => compatible
        /\ (IsLiteral(expected) /\ IsPrimitive(actual)) => ~compatible
        /\ (IsLiteral(expected) /\ IsLiteral(actual))
              => (compatible <=> SameLiteralValue(expected, actual))
        /\ (IsPrimitive(expected) /\ IsLiteral(actual))
              => (compatible <=> expected \in {BaseOf(actual), AnyType})

\* C5 witness: a literal expected type was offered its own base primitive and
\* refused it (widening runs one way only).
C5_Witness ==
    /\ pc = "done"
    /\ expected = NumberLiteral(42)
    /\ actual = Number
    /\ ~compatible

\* C6: a Union expected accepts an actual iff one of its members accepts the whole
\* actual (a Union actual is not split); the empty Union accepts nothing; an expected
\* type that is neither a Union nor Any never accepts a Union actual.
C6_UnionExpected ==
    pc = "done" =>
        /\ expected.k = "Union"
              => (compatible <=>
                    \E i \in 1..Len(expected.types) :
                        check_type_compatibility(expected.types[i], actual))
        /\ (expected.k = "Union" /\ Len(expected.types) = 0) => ~compatible
        /\ (actual.k = "Union" /\ expected.k \notin {"Union", "Any"}) => ~compatible
        /\ (expected.k = "Union" /\ actual.k = "Union"
              /\ \A i \in 1..Len(expected.types) :
                    expected.types[i].k \notin {"Union", "Any"})
              => ~compatible

\* C6 witness: number | string was offered number | string itself and refused it,
\* because no single member accepts the whole union.
C6_Witness ==
    /\ pc = "done"
    /\ expected = Union(<<Number, String>>)
    /\ actual = Union(<<Number, String>>)
    /\ ~compatible

CompositeKinds == {"Union", "Array", "Tuple", "Function"}

StructuralKinds == {"Array", "Tuple", "Function"}

\* the recursion rules of C7 for two composites of the same structural kind
C7_SameKindRules ==
    /\ (expected.k = "Array" /\ actual.k = "Array")
          => (compatible <=> check_type_compatibility(expected.elem, actual.elem))
    /\ (expected.k = "Tuple" /\ actual.k = "Tuple")
          => (compatible <=>
                /\ Len(expected.types) = Len(actual.types)
                /\ \A i \in 1..Len(expected.types) :
                      check_type_compatibility(expected.types[i], actual.types[i]))
    /\ (expected.k = "Function" /\ actual.k = "Function")
          => (compatible <=>
                /\ Len(expected.params) = Len(actual.params)
                /\ \A i \in 1..Len(expected.params) :
                      check_type_compatibility(expected.params[i], actual.params[i])
                /\ check_type_compatibility(expected.return_type, actual.return_type))

\* C7 as claimed: the recursion rules, and a composite (Union, Array, Tuple or
\* Function) of one kind is never compatible with a composite of a different kind.
C7_StructuralAsClaimed ==
    pc = "done" =>
        /\ C7_SameKindRules
        /\ (expected.k \in CompositeKinds /\ actual.k \in CompositeKinds
              /\ expected.k # actual.k) => ~compatible

\* C7 amended: the recursion rules, and among Array, Tuple and Function an expected
\* type of one kind never accepts an actual composite (a Union included) of a
\* different kind; a Union expected may accept one through a member.
C7_Structural ==
    pc = "done" =>
        /\ C7_SameKindRules
        /\ (expected.k \in StructuralKinds /\ actual.k \in CompositeKinds
              /\ expected.k # actual.k) => ~compatible

\* C7 witness: (any) => number was offered (number) => number and accepted it: the
\* parameters are compared expected-to-actual, like the return type.
C7_Witness ==
    /\ pc = "done"
    /\ expected = Function(<<AnyType>>, Number)
    /\ actual = Function(<<Number>>, Number)
    /\ compatible

(***************************************************************************)
(* Properties of the checker, checked under Spec and SpecExpr.             *)
(***************************************************************************)
\* the diagnostics the last call appended
Appended == SubSeq(errors, Len(preErrors) + 1, Len(errors))

\* the last call left the earlier diagnostics in place
KeptEarlier ==
    /\ Len(errors) >= Len(preErrors)
    /\ SubSeq(errors, 1, Len(preErrors)) = preErrors

IsNotAssignable(msg) == Len(msg) >= 6 /\ SubSeq(msg, 1, 6) = "Type '"

IsBinaryNotAllowed(msg) ==
    Len(msg) >= 28 /\ SubSeq(msg, 1, 28) = "The binary operation between"

\* the last call checked a program of one statement
LastStatement(kind) ==
    /\ lastOp = "check_program"
    /\ Len(lastArg) = 1
    /\ lastArg[1].s = kind

\* the last call checked one variable declaration of one declarator that binds an
\* identifier
LastLet ==
    /\ LastStatement("VariableDeclaration")
    /\ Len(lastArg[1].declarations) = 1
    /\ lastArg[1].declarations[1].id.kind = "BindingIdentifier"

LastDeclarator == lastArg[1].declarations[1]

\* evalType(expr) against a table, diagnostics set aside
EvalType(expr, table) == check_expression(expr, table, <<>>).ty

\* C1: a declarator appends a not-assignable diagnostic iff it has an annotation and
\* an initializer and compatible(declared, init type) is false, the message being
\* "Type '<init>' is not assignable to type '<declared>'"; a declarator without an
\* annotation never appends one.
C1_NotAssignableIffAnnotatedMismatch ==
    LastLet =>
        LET decl == LastDeclarator
            declared == check_type(decl.id.type_annotation.v)
            init == EvalType(decl.init.v, symbol_table)
        IN  SelectSeq(Appended, IsNotAssignable) =
                IF /\ IsSome(decl.id.type_annotation)
                   /\ IsSome(decl.init)
                   /\ ~check_type_compatibility(declared, init)
                THEN <<NotAssignable(init, declared)>>
                ELSE <<>>

\* C2: on a fresh checker, let a: bigint = 1n; let c: number = 3; let i = a + c;
\* leaves exactly one diagnostic, the invalid binary operation, and i bound to Number;
\* the count is the same when i carries an annotation.
C2_MixedAdditionReportedOnce ==
    (/\ lastOp = "check_program"
     /\ lastArg \in {ScenarioD, ScenarioDAnnotated}
     /\ calls = 1
     /\ preErrors = <<>>
     /\ preTable = EmptyTable)
        => /\ errors = <<BinaryNotAllowed(BigInt, Number)>>
           /\ symbol_table["i"] = Number

LastFunction == LastStatement("FunctionDeclaration")

\* the return type R of a function declaration: its annotation, or Any when absent
C3_R(func_decl) ==
    IF IsSome(func_decl.return_type) THEN check_type(func_decl.return_type.v)
    ELSE AnyType

\* the table the body of a function declaration is checked against at its start
C3_Header(func_decl, table) ==
    Insert(BindParams(func_decl.params, table), func_decl.id.v,
           Function(ParamTypes(func_decl.params), C3_R(func_decl)))

RECURSIVE C3_Body(_, _, _, _)
\* what C3 says of a body: each direct return <expr> appends the not-assignable
\* diagnostic iff compatible(R, evalType(expr)) is false, a bare return appends
\* nothing, every other statement goes to the statement checker
C3_Body(statements, R, table, errs) ==
    IF Len(statements) = 0 THEN Checked(table, errs)
    ELSE LET stmt == Head(statements)
             evaluated == check_expression(stmt.argument.v, table, errs)
             step ==
                 IF stmt.s # "ReturnStatement" THEN check_statement(stmt, table, errs)
                 ELSE IF ~IsSome(stmt.argument) THEN Checked(table, errs)
                 ELSE IF check_type_compatibility(R, evaluated.ty)
                      THEN Checked(table, evaluated.errors)
                 ELSE Checked(table,
                              Append(evaluated.errors, NotAssignable(evaluated.ty, R)))
         IN  C3_Body(Tail(statements), R, step.symbol_table, step.errors)

\* the statements of a body that are declarations
C3_Declarations(statements) ==
    {i \in 1..Len(statements) :
        statements[i].s \in {"VariableDeclaration", "FunctionDeclaration"}}

\* C3: in a function declaration with return type R each direct return <expr>
\* appends "Type '<evalType(expr)>' is not assignable to type '<R>'" iff
\* compatible(R, evalType(expr)) is false; a bare return appends nothing; without a
\* return annotation no return is ever reported; every other body statement is
\* handed to the statement checker, so a return nested in an if is not checked and a
\* nested function's returns are checked against its own return type.
C3_ReturnsCheckedAgainstReturnType ==
    LastFunction =>
        LET func_decl == lastArg[1]
            R == C3_R(func_decl)
            statements == IF IsSome(func_decl.body) THEN func_decl.body.v ELSE <<>>
            claimed == C3_Body(statements, R, C3_Header(func_decl, preTable), preErrors)
        IN  /\ errors = claimed.errors
            /\ symbol_table = claimed.symbol_table
            /\ (~IsSome(func_decl.return_type) /\ C3_Declarations(statements) = {})
                  => SelectSeq(Appended, IsNotAssignable) = <<>>
            /\ (\A i \in 1..Len(statements) : statements[i].s = "IfStatement")
                  => errors = preErrors

\* C3 witness: function i(a: number): string { function c(a: string): number
\* { return a; } return a; } reported the inner return against number and, a being
\* bound to string by then, did not report the outer one.
C3_Witness ==
    /\ LastFunction
    /\ lastArg[1].id = Some("i")
    /\ lastArg[1].return_type = Some(TSString)
    /\ lastArg[1].body = Some(<<InnerFn, ReturnStatement(Some(Identifier("a")))>>)
    /\ Appended = <<NotAssignable(String, Number)>>

\* C8: after a declarator binding identifier n, the table maps n to the annotation's
\* type if there is one, else to the type of the initializer evaluated against the
\* table as it was before, else to Any; the binding replaces an earlier one, is made
\* whether or not the assignability check fails, and no other binding changes.
C8_DeclaratorBinds ==
    LastLet =>
        LET decl == LastDeclarator
            bound ==
                IF IsSome(decl.id.type_annotation)
                THEN check_type(decl.id.type_annotation.v)
                ELSE IF IsSome(decl.init) THEN EvalType(decl.init.v, preTable)
                ELSE AnyType
        IN  /\ DOMAIN symbol_table = DOMAIN preTable \cup {decl.id.name}
            /\ symbol_table[decl.id.name] = bound
            /\ \A n \in DOMAIN preTable \ {decl.id.name} : symbol_table[n] = preTable[n]

\* C8 witness: let i: number = "s" over an earlier binding of i to another type:
\* the diagnostic was appended and i is bound to Number all the same.
C8_Witness ==
    /\ LastLet
    /\ LastDeclarator = VariableDeclarator(BindingIdentifier("i", Some(TSNumber)),
                                           Some(StringLiteralExpr))
    /\ "i" \in DOMAIN preTable
    /\ preTable["i"] # Number
    /\ Appended = <<NotAssignable(String, Number)>>
    /\ symbol_table["i"] = Number

\* the type of a parameter: its annotation's type, Any when unannotated
C9_ParamType(param) ==
    IF IsSome(param.pattern.type_annotation)
    THEN check_type(param.pattern.type_annotation.v)
    ELSE AnyType

\* the positions of the parameters that are identifiers named n
C9_ParamsNamed(params, n) ==
    {i \in 1..Len(params) :
        params[i].pattern.kind = "BindingIdentifier" /\ params[i].pattern.name = n}

C9_ParamNames(params) ==
    {params[i].pattern.name :
        i \in {j \in 1..Len(params) : params[j].pattern.kind = "BindingIdentifier"}}

RECURSIVE C9_DeclaredIn(_)
\* the names the declarations among the given statements bind
C9_DeclaredIn(statements) ==
    UNION {
        LET stmt == statements[i]
        IN  CASE stmt.s = "VariableDeclaration" ->
                    {stmt.declarations[j].id.name :
                        j \in {d \in 1..Len(stmt.declarations) :
                                 stmt.declarations[d].id.kind = "BindingIdentifier"}}
              [] stmt.s = "FunctionDeclaration" ->
                    {stmt.id.v} \cup C9_ParamNames(stmt.params)
                        \cup (IF IsSome(stmt.body) THEN C9_DeclaredIn(stmt.body.v)
                              ELSE {})
              [] OTHER -> {}
        : i \in 1..Len(statements)}

\* the spellings the expression evaluator takes for primitive types
C9_KeywordSpellings ==
    {"number", "string", "boolean", "bigint", "symbol", "null", "never", "void",
     "unknown", "any"}

\* the rule of C9 after a function declaration; the names in exempt are not required
\* to resolve to their parameter's type in later expressions
C9_Rule(exempt) ==
    LastFunction =>
        LET func_decl == lastArg[1]
            f == func_decl.id.v
            params == func_decl.params
            rebound == IF IsSome(func_decl.body) THEN C9_DeclaredIn(func_decl.body.v)
                       ELSE {}
            R == IF IsSome(func_decl.return_type) THEN check_type(func_decl.return_type.v)
                 ELSE AnyType
            last(n) == CHOOSE i \in C9_ParamsNamed(params, n) :
                          \A j \in C9_ParamsNamed(params, n) : j <= i
        IN  /\ \A n \in C9_ParamNames(params) \ ({f} \cup rebound) :
                  /\ n \in DOMAIN symbol_table
                  /\ symbol_table[n] = C9_ParamType(params[last(n)])
                  /\ n \notin exempt
                        => EvalType(Identifier(n), symbol_table)
                              = C9_ParamType(params[last(n)])
            /\ f \notin rebound =>
                  /\ f \in DOMAIN symbol_table
                  /\ symbol_table[f] =
                        Function([i \in 1..Len(params) |-> C9_ParamType(params[i])], R)
            /\ \A n \in DOMAIN preTable \ (C9_ParamNames(params) \cup {f} \cup rebound) :
                  /\ n \in DOMAIN symbol_table
                  /\ symbol_table[n] = preTable[n]

\* C9 as claimed: a function declaration f binds every identifier parameter to its
\* annotation's type (Any when unannotated) and then f to Function{parameter types in
\* declaration order, return annotation or Any}, over earlier bindings; after the
\* body has been checked the bindings are still in the table and a later expression
\* resolves a parameter name to the parameter's type, unless re-bound by f's own name
\* or by a declaration in the body.
C9_FunctionBindsAsClaimed == C9_Rule({})

\* C9 amended: as claimed, except that a parameter spelled like a primitive keyword,
\* though bound in the table, is not resolved through the table by later expressions.
C9_FunctionBinds == C9_Rule(C9_KeywordSpellings)

\* C9 witness: function i(a: bigint, c: number) checked over an earlier binding of a
\* to another type: afterwards a and c are bound to the parameter types and i to the
\* function type.
C9_Witness ==
    /\ LastFunction
    /\ lastArg[1].id = Some("i")
    /\ lastArg[1].params = <<Param("a", Some(TSBigInt)), Param("c", Some(TSNumber))>>
    /\ "a" \in DOMAIN preTable
    /\ preTable["a"] # BigInt
    /\ symbol_table["a"] = BigInt
    /\ symbol_table["c"] = Number
    /\ symbol_table["i"].k = "Function"
    /\ symbol_table["i"].params = <<BigInt, Number>>

LastAddition ==
    /\ lastOp = "check_expression"
    /\ lastArg.e = "BinaryExpression"
    /\ lastArg.operator = "Addition"

C11_ArithmeticGroup ==
    {"Subtraction", "Multiplication", "Division", "Remainder", "Exponential"}

C11_BitwiseGroup ==
    {"BitwiseAnd", "BitwiseOR", "BitwiseXOR", "ShiftLeft", "ShiftRight",
     "ShiftRightZeroFill"}

LastNumericOperation ==
    /\ lastOp = "check_expression"
    /\ lastArg.e = "BinaryExpression"
    /\ lastArg.operator \in C11_ArithmeticGroup \cup C11_BitwiseGroup

LastIdentifier ==
    /\ lastOp = "check_expression"
    /\ lastArg.e = "Identifier"

\* the primitive type each keyword spelling stands for
C12_Spelled ==
    [number |-> Number, string |-> String, boolean |-> Boolean, bigint |-> BigInt,
     symbol |-> Symbol, null |-> Null, never |-> Never, void |-> Void,
     unknown |-> Unknown, any |-> AnyType]

\* C12: an identifier spelled number, string, boolean, bigint, symbol, null, never,
\* void, unknown or any evaluates to that primitive whatever the symbol table binds
\* to the spelling; any other identifier (undefined and object included) evaluates to
\* its binding, or Any when unbound; the evaluation appends no diagnostic and leaves
\* the symbol table as it was.
C12_IdentifierEvaluation ==
    LastIdentifier =>
        /\ lastArg.name \in DOMAIN C12_Spelled => lastResult = C12_Spelled[lastArg.name]
        /\ lastArg.name \notin DOMAIN C12_Spelled =>
              lastResult = IF lastArg.name \in DOMAIN preTable
                           THEN preTable[lastArg.name]
                           ELSE AnyType
        /\ errors = preErrors
        /\ symbol_table = preTable

\* C12 witness: with number bound to String in the table, the identifier number
\* evaluated to Number.
C12_Witness ==
    /\ LastIdentifier
    /\ lastArg.name = "number"
    /\ "number" \in DOMAIN preTable
    /\ preTable["number"] = String
    /\ lastResult = Number

RECURSIVE Flatten(_)
\* the statements of the given programs, one after the other
Flatten(programs) ==
    IF Len(programs) = 0 THEN <<>> ELSE Head(programs) \o Flatten(Tail(programs))

\* C13: a checker starts with an empty symbol table and an empty diagnostic list and
\* is never reset: the diagnostics present before a check_program call are an
\* unchanged prefix of the list after it, no bound name leaves the symbol table, and
\* successive calls on S1, S2, ... leave the symbol table and diagnostic list that
\* one call on the program S1 followed by S2, ... leaves on a fresh checker.
C13_NeverReset ==
    /\ lastOp = "new" => (errors = <<>> /\ symbol_table = EmptyTable)
    /\ lastOp = "check_program" =>
          /\ KeptEarlier
          /\ DOMAIN preTable \subseteq DOMAIN symbol_table
    /\ Checked(symbol_table, errors) = check_program(Flatten(history), EmptyTable, <<>>)

\* C13 witness: a second check_program call on a checker that already held bindings
\* and diagnostics added a diagnostic and a binding to them.
C13_Witness ==
    /\ lastOp = "check_program"
    /\ Len(history) = 2
    /\ history[1] # <<>>
    /\ preErrors # <<>>
    /\ Len(errors) > Len(preErrors)
    /\ DOMAIN preTable # {}
    /\ DOMAIN symbol_table # DOMAIN preTable

\* the operators whose arm can raise the invalid-binary-operation diagnostic
C14_NumericOperators ==
    {"Addition"} \cup C11_ArithmeticGroup \cup C11_BitwiseGroup

\* the diagnostic of a binary expression itself, its operands set aside
C14_Own(expr, table) ==
    LET L == EvalType(expr.left, table)
        R == EvalType(expr.right, table)
    IN  IF /\ expr.operator \in C14_NumericOperators
           /\ ~(expr.operator = "Addition" /\ (L = String \/ R = String))
           /\ (L = BigInt) # (R = BigInt)
        THEN <<BinaryNotAllowed(L, R)>>
        ELSE <<>>

RECURSIVE C14_Expression(_, _)
\* the diagnostics of one evaluation of an expression, depth first, left to right
C14_Expression(expr, table) ==
    CASE expr.e = "BinaryExpression" ->
            C14_Expression(expr.left, table) \o C14_Expression(expr.right, table)
                \o C14_Own(expr, table)
      [] expr.e = "ArrayExpression" ->
            IF Len(expr.elements) > 0 /\ expr.elements[1].a = "Expression"
            THEN C14_Expression(expr.elements[1].expr, table)
            ELSE <<>>
      [] OTHER -> <<>>

\* the not-assignable diagnostic of a declarator or return statement, if any
C14_OwnNotAssignable(declared, expr, table) ==
    IF check_type_compatibility(declared, EvalType(expr, table)) THEN <<>>
    ELSE <<NotAssignable(EvalType(expr, table), declared)>>

\* the diagnostics of one declarator: those of each evaluation of its initializer
\* (an initializer without annotation is first evaluated for the declared type),
\* then its own
C14_Declarator(decl, table) ==
    IF decl.id.kind # "BindingIdentifier" \/ ~IsSome(decl.init) THEN <<>>
    ELSE LET bound == check_declarator(decl, table, <<>>).symbol_table
         IN  (IF IsSome(decl.id.type_annotation) THEN <<>>
              ELSE C14_Expression(decl.init.v, table))
                 \o C14_Expression(decl.init.v, bound)
                 \o C14_OwnNotAssignable(bound[decl.id.name], decl.init.v, bound)

RECURSIVE C14_Declarators(_, _)
C14_Declarators(decls, table) ==
    IF Len(decls) = 0 THEN <<>>
    ELSE C14_Declarator(Head(decls), table)
             \o C14_Declarators(Tail(decls),
                                check_declarator(Head(decls), table, <<>>).symbol_table)

RECURSIVE C14_Statement(_, _)
RECURSIVE C14_Body(_, _, _)

\* the diagnostics of the statements of a function body whose return type is R
C14_Body(statements, R, table) ==
    IF Len(statements) = 0 THEN <<>>
    ELSE LET stmt == Head(statements)
         IN  IF stmt.s = "ReturnStatement"
             THEN (IF IsSome(stmt.argument)
                   THEN C14_Expression(stmt.argument.v, table)
                            \o C14_OwnNotAssignable(R, stmt.argument.v, table)
                   ELSE <<>>)
                      \o C14_Body(Tail(statements), R, table)
             ELSE C14_Statement(stmt, table)
                      \o C14_Body(Tail(statements), R,
                                  check_statement(stmt, table, <<>>).symbol_table)

\* the diagnostics of one statement
C14_Statement(stmt, table) ==
    CASE stmt.s = "VariableDeclaration" -> C14_Declarators(stmt.declarations, table)
      [] stmt.s = "FunctionDeclaration" ->
            IF IsSome(stmt.id) /\ IsSome(stmt.body)
            THEN C14_Body(stmt.body.v, C3_R(stmt), C3_Header(stmt, table))
            ELSE <<>>
      [] OTHER -> <<>>

RECURSIVE C14_Statements(_, _)
\* the diagnostics of the statements in order, an earlier statement's first
C14_Statements(statements, table) ==
    IF Len(statements) = 0 THEN <<>>
    ELSE C14_Statement(Head(statements), table)
             \o C14_Statements(Tail(statements),
                               check_statement(Head(statements), table,
                                               <<>>).symbol_table)

\* C14: get_errors returns the diagnostic list as it is, in depth-first left-to-right
\* emission order: an earlier statement's diagnostics precede a later statement's;
\* in a declarator or return statement the diagnostics of its expression precede its
\* own not-assignable diagnostic; in a binary expression the left operand's precede
\* the right operand's, which precede the expression's own.
C14_EmissionOrder ==
    lastOp = "get_errors" =>
        /\ lastResult = errors
        /\ errors = preErrors
        /\ symbol_table = preTable
        /\ lastResult = C14_Statements(Flatten(history), EmptyTable)

\* C14 witness: after let a: bigint = 1n; let c: number = 3; let i: string =
\* (a + c) + a; get_errors returned the left operand's diagnostic, then the
\* addition's own, then the declarator's.
C14_Witness ==
    /\ lastOp = "get_errors"
    /\ lastResult = <<BinaryNotAllowed(BigInt, Number), BinaryNotAllowed(Number, BigInt),
                      NotAssignable(Number, String)>>

\* the types the session's programs can name in a diagnostic
C15_Types ==
    Primitives \cup {Array(ty) : ty \in Primitives}
        \cup {Function(<<p>>, r) : p \in {Number, String}, r \in {Number, String}}

\* every string of the two forms over these types
C15_Forms ==
    {NotAssignable(t1, t2) : t1 \in C15_Types, t2 \in C15_Types}
        \cup {BinaryNotAllowed(t1, t2) : t1 \in C15_Types, t2 \in C15_Types}

\* checking first and then rest leaves what checking rest on the table first left,
\* with an empty diagnostic list, would have left, after the diagnostics of first
C15_Continues(first, rest) ==
    /\ symbol_table = rest.symbol_table
    /\ errors = first.errors \o rest.errors

\* C15: every string in the diagnostic list is "Type '<T1>' is not assignable to type
\* '<T2>'" or "The binary operation between '<T1>' and '<T2>' is not allowed" with T1
\* and T2 rendered types; and a recorded diagnostic does not stop the traversal: the
\* statements, declarators and return statements after any point of the program are
\* checked as they are on a checker holding the same symbol table and no diagnostic.
C15_TwoFormsNonFatal ==
    /\ \A i \in 1..Len(errors) : errors[i] \in C15_Forms
    /\ lastOp = "check_program" =>
          \A k \in 0..Len(lastArg) :
              LET first == check_program(SubSeq(lastArg, 1, k), preTable, preErrors)
                  rest == check_program(SubSeq(lastArg, k + 1, Len(lastArg)),
                                        first.symbol_table, <<>>)
              IN  C15_Continues(first, rest)
    /\ (LastStatement("VariableDeclaration")) =>
          \A k \in 0..Len(lastArg[1].declarations) :
              LET decls == lastArg[1].declarations
                  first == check_declarations(SubSeq(decls, 1, k), preTable, preErrors)
                  rest == check_declarations(SubSeq(decls, k + 1, Len(decls)),
                                             first.symbol_table, <<>>)
              IN  C15_Continues(first, rest)
    /\ (LastFunction /\ IsSome(lastArg[1].body)) =>
          \A k \in 0..Len(lastArg[1].body.v) :
              LET body == lastArg[1].body.v
                  R == C3_R(lastArg[1])
                  first == check_body(SubSeq(body, 1, k), R,
                                      C3_Header(lastArg[1], preTable), preErrors)
                  rest == check_body(SubSeq(body, k + 1, Len(body)), R,
                                     first.symbol_table, <<>>)
              IN  C15_Continues(first, rest)

\* C15 witness: in let a: number = "s", c: bigint = a, i = c; the first declarator
\* was reported, and the second was still checked and reported and the third bound.
C15_Witness ==
    /\ lastOp = "check_program"
    /\ lastArg = <<DeclaratorsAfterDiagnostic>>
    /\ Appended = <<NotAssignable(String, Number), NotAssignable(Number, BigInt)>>
    /\ symbol_table["i"] = BigInt

\* the last call checked a program none of whose statements is a declaration
C16_LastWithoutDeclaration ==
    /\ lastOp = "check_program"
    /\ lastArg # <<>>
    /\ \A i \in 1..Len(lastArg) :
          lastArg[i].s \notin {"VariableDeclaration", "FunctionDeclaration"}

\* C16: a statement that is neither a variable declaration nor a function
\* declaration leaves the symbol table and the diagnostic list unchanged, even when
\* it holds a mixed BigInt/Number expression or an ill-typed nested declaration;
\* check_type changes neither; check_expression does not change the symbol table.
C16_NoOps ==
    /\ C16_LastWithoutDeclaration => (errors = preErrors /\ symbol_table = preTable)
    /\ lastOp = "check_type" => (errors = preErrors /\ symbol_table = preTable)
    /\ lastOp = "check_expression" => symbol_table = preTable

\* C16 witness: with a bound to BigInt, the expression statement a + 3 was checked
\* and left the diagnostic list and the symbol table as they were.
C16_Witness ==
    /\ C16_LastWithoutDeclaration
    /\ lastArg = <<ExpressionStatement(Plus(Identifier("a"), NumericLiteralExpr))>>
    /\ "a" \in DOMAIN preTable
    /\ preTable["a"] = BigInt
    /\ errors = preErrors
    /\ symbol_table = preTable

\* the types directly inside a composite type
C17_Parts(ty) ==
    CASE ty.k \in {"Union", "Tuple"} -> {ty.types[i] : i \in 1..Len(ty.types)}
      [] ty.k = "Array" -> {ty.elem}
      [] ty.k = "Function" ->
            {ty.params[i] : i \in 1..Len(ty.params)} \cup {ty.return_type}
      [] OTHER -> {}

RECURSIVE C17_Has(_, _)
\* ty is, or holds somewhere inside, a type of one of the given kinds
C17_Has(ty, kinds) ==
    ty.k \in kinds \/ \E part \in C17_Parts(ty) : C17_Has(part, kinds)

RECURSIVE C17_HasNaN(_)
C17_HasNaN(ty) ==
    (ty.k = "NumberLiteral" /\ ty.nan) \/ \E part \in C17_Parts(ty) : C17_HasNaN(part)

C17_LiteralFree(ty) ==
    ~C17_Has(ty, {"NumberLiteral", "StringLiteral", "BooleanLiteral"})

C17_KeywordOf ==
    [Any |-> "TSAnyKeyword", Number |-> "TSNumberKeyword", String |-> "TSStringKeyword",
     Boolean |-> "TSBooleanKeyword", Null |-> "TSNullKeyword",
     Undefined |-> "TSUndefinedKeyword", Never |-> "TSNeverKeyword",
     BigInt |-> "TSBigIntKeyword", Symbol |-> "TSSymbolKeyword",
     Object |-> "TSObjectKeyword", Unknown |-> "TSUnknownKeyword",
     Void |-> "TSVoidKeyword"]

RECURSIVE C17_Annotation(_)
\* the annotation that writes a literal-free type
C17_Annotation(ty) ==
    CASE ty.k \in PrimitiveKinds -> TSKeyword(C17_KeywordOf[ty.k])
      [] ty.k = "Array" -> TSArrayType(C17_Annotation(ty.elem))
      [] ty.k = "Tuple" ->
            TSTupleType([i \in 1..Len(ty.types) |-> C17_Annotation(ty.types[i])])
      [] ty.k = "Union" ->
            TSUnionType([i \in 1..Len(ty.types) |-> C17_Annotation(ty.types[i])])
      [] ty.k = "Function" ->
            TSFunctionType(
                [i \in 1..Len(ty.params) |->
                    Param(<<"x", "y", "z">>[i], Some(C17_Annotation(ty.params[i])))],
                C17_Annotation(ty.return_type))

\* the diagnostics of  let a: <T>; let i: <T> = a;  on a fresh checker
C17_SameTypeInitialised(ty) ==
    check_program(<<Let("a", Some(C17_Annotation(ty)), None),
                    Let("i", Some(C17_Annotation(ty)), Some(Identifier("a")))>>,
                  EmptyTable, <<>>).errors

\* a type was offered to itself, and holds no NaN literal
C17_OfferedItself ==
    /\ pc = "done"
    /\ expected = actual
    /\ ~C17_HasNaN(expected)

\* C17 as claimed: compatible(T, T) is true for every type T built from the
\* primitives, literals with non-NaN values, Union, Array, Tuple and Function, so a
\* variable initialised from a variable bound to its own declared type is not
\* reported.
C17_ReflexiveAsClaimed ==
    C17_OfferedItself =>
        /\ compatible
        /\ C17_LiteralFree(expected) => C17_SameTypeInitialised(expected) = <<>>

\* C17 amended: compatible(T, T) is true for every such type T that holds no Union,
\* and a variable initialised from a variable bound to its own Union-free declared
\* type is not reported; a Union whose members are neither Any nor Unions is not
\* compatible with itself, and such an initialisation is reported as "Type '<T>' is
\* not assignable to type '<T>'".
C17_Reflexive ==
    C17_OfferedItself =>
        /\ ~C17_Has(expected, {"Union"}) =>
              /\ compatible
              /\ C17_LiteralFree(expected) => C17_SameTypeInitialised(expected) = <<>>
        /\ (/\ expected.k = "Union"
            /\ \A part \in C17_Parts(expected) : part.k \notin {"Any", "Union"}) =>
              /\ ~compatible
              /\ C17_LiteralFree(expected) =>
                    C17_SameTypeInitialised(expected)
                        = <<NotAssignable(expected, expected)>>

\* C17 witness: the function type ((number) => string) => () => number was offered
\* to itself and accepted.
C17_Witness ==
    /\ C17_OfferedItself
    /\ expected = Function(<<Function(<<Number>>, String)>>, Function(<<>>, Number))
    /\ compatible
    /\ C17_SameTypeInitialised(expected) = <<>>

\* C18: compatible is transitive: for all types A, B, C drawn from the primitives,
\* literals, Unions, Arrays, Tuples and Functions, compatible(A, B) and
\* compatible(B, C) together imply compatible(A, C).
C18_Transitive ==
    (pc = "done" /\ compatible) =>
        \A C \in CompatTypes :
            check_type_compatibility(actual, C) => check_type_compatibility(expected, C)

\* C18 witness: number | string accepted number, number accepts the literal 42, and
\* number | string accepts the literal 42.
C18_Witness ==
    /\ pc = "done"
    /\ expected = Union(<<Number, String>>)
    /\ actual = Number
    /\ compatible
    /\ check_type_compatibility(actual, NumberLiteral(42))
    /\ check_type_compatibility(expected, NumberLiteral(42))

LastFunctionType ==
    /\ lastOp = "check_type"
    /\ lastArg.t = "TSFunctionType"

\* C19: check_type on a function type annotation with n parameters yields
\* Function{params, return} whose params has exactly n entries in declaration order,
\* an unannotated parameter contributing Any as in a function declaration, so the
\* parameter count compatible sees is the number of parameters written.
C19_FunctionTypeKeepsEveryParameter ==
    LastFunctionType =>
        /\ lastResult.k = "Function"
        /\ Len(lastResult.params) = Len(lastArg.params)
        /\ lastResult.params = ParamTypes(lastArg.params)
        /\ lastResult.return_type = check_type(lastArg.return_type)

====
